---- MODULE Spec2Model ----
(***************************************************************************)
(* Support chat bridge of flooring_bournmouth.                             *)
(*                                                                         *)
(*   Part I   the Telegram webhook handler POST (src/unnamed/part_000)     *)
(*   Part II  the zustand support store (src/src/store/support-store.ts)   *)
(*                                                                         *)
(* SpecHook runs webhook invocations, SpecStore runs the browser store     *)
(* against a server and a realtime channel.                                *)
(***************************************************************************)
EXTENDS Integers, Sequences, FiniteSets, TLC

VARIABLES
    \* ---- Part I: webhook ----
    env,        \* process.env and the platform client's configuration
    request,    \* request[i]: the HTTP request invocation i handles
    hpc,        \* hpc[i]: where invocation i stands in POST
    loc,        \* loc[i]: POST's local variables
    calls,      \* calls[i]: the collaborator calls invocation i has made, in order
    resp,       \* resp[i]: the HTTP status answered (0: none yet)
    db,         \* the support_messages table, in insertion order
    \* ---- Part II: the store (zustand state) ----
    isOpen,
    unreadCount,
    currentConversation,
    messages,
    isLoading,
    isSending,
    error,
    \* ---- Part II: the store's surroundings ----
    activeSubscription, \* the module-level subscription slot
    anonymousId,        \* localStorage has support_anonymous_id
    cache,              \* cache[c]: localStorage support_messages_<c>
    channels,           \* the realtime channels that are open
    handles,            \* unsubscribe functions a caller of subscribeToMessages holds
    sends,              \* the sendMessage calls, by placeholder number
    loads,              \* the loadConversationMessages calls in flight
    creating,           \* the createConversation calls in flight
    srvConversations,   \* server: the visitor's conversations
    srvMessages,        \* server: the message rows, in insertion order
    droppedDuplicate,   \* history: the INSERT handler has met an id it already had
    appended,           \* history: ids the INSERT handler added since the selection
    conversations,      \* the store's list of conversations
    lists,              \* the loadConversations calls in flight
    updates,            \* the updateConversationStatus calls in flight
    submit,             \* the input component: the submission in progress
    inputMessage,       \* the input component: the text in the input field
    selectedImage,      \* the input component: an image is selected
    startedNew          \* history: "Start New Ticket" was pressed, nothing created since

hookVars == <<env, request, hpc, loc, calls, resp, db>>

stateVars == <<isOpen, unreadCount, currentConversation, messages, isLoading,
               isSending, error>>

clientVars == <<activeSubscription, anonymousId, cache, channels, handles,
                droppedDuplicate, appended>>

flightVars == <<sends, loads, creating>>

serverVars == <<srvConversations, srvMessages>>

widgetVars == <<conversations, lists, updates>>

inputVars == <<submit, inputMessage, selectedImage, startedNew>>

storeVars == <<stateVars, clientVars, flightVars, serverVars, widgetVars, inputVars>>

vars == <<hookVars, storeVars>>

----------------------------------------------------------------------------
(* Bounds of the model *)

MaxThread == 3      \* message_thread_id ranges over 0..MaxThread (0: no topic)
MaxPhoto == 2       \* message.photo holds 0..MaxPhoto sizes
MaxMessageId == 2   \* Telegram message_id ranges over 1..MaxMessageId
MaxRows == 2        \* the server holds at most MaxRows message rows
MaxSends == 2       \* sendMessage is called at most MaxSends times
MaxChannels == 2    \* at most MaxChannels channels are open or referred to
MaxLoads == 2       \* at most MaxLoads loadConversationMessages in flight
MaxLists == 2       \* at most MaxLists loadConversations in flight
MaxUpdates == 1     \* at most MaxUpdates updateConversationStatus in flight

Invocations == {1, 2}

----------------------------------------------------------------------------
(* Part I: POST /api/telegram/webhook *)

NoString == ""      \* undefined / null / empty: all falsy in the source
NoImage == 0

Secrets == {NoString, "s3cret"}
Headers == {NoString, "s3cret", "wrong"}
Texts == {NoString, "hello"}
Captions == {NoString, "caption"}

\* message.photo: Telegram lists the sizes smallest first; a size is its file_id
Photos == {[k \in 1..n |-> k] : n \in 0..MaxPhoto}

NoUpdate ==
    [hasMessage |-> FALSE, fromSupportGroup |-> FALSE, message_thread_id |-> 0,
     is_bot |-> FALSE, text |-> NoString, caption |-> NoString, photo |-> <<>>,
     message_id |-> 1, from_id |-> 7, first_name |-> "Agent"]

Updates ==
    {NoUpdate} \cup
    [hasMessage : {TRUE}, fromSupportGroup : BOOLEAN,
     message_thread_id : 0..MaxThread, is_bot : BOOLEAN, text : Texts,
     caption : Captions, photo : Photos, message_id : 1..MaxMessageId,
     from_id : {7}, first_name : {"Agent"}]

\* body: "malformed" is not JSON, "null" is JSON that is no object
Requests ==
    [header : Headers, body : {"malformed", "null"}, update : {NoUpdate}] \cup
    [header : Headers, body : {"update"}, update : Updates]

Envs == [secret : Secrets, botToken : BOOLEAN, configured : BOOLEAN]

NoLocals ==
    [threadId |-> 0, conversation |-> 0, content |-> NoString,
     imageUrl |-> NoImage, fileId |-> 0, supportMessage |-> 0]

\* a collaborator call with its arguments and how it ended
Call(op, x, y, outcome) == [op |-> op, x |-> x, y |-> y, outcome |-> outcome]

\* supportService.getConversationByThreadId: topics below MaxThread are linked
ConversationOfThread(t) == IF t >= 1 /\ t < MaxThread THEN 10 + t ELSE 0

\* the public URL object storage gives the re-hosted file
PublicUrl(fileId) == 100 + fileId

Respond(i, status) ==
    /\ resp' = [resp EXCEPT ![i] = status]
    /\ hpc' = [hpc EXCEPT ![i] = "done"]

Goto(i, label) ==
    /\ hpc' = [hpc EXCEPT ![i] = label]
    /\ UNCHANGED resp

\* mutant: the outer catch answers an error status
CatchAllAsError(i) == Respond(i, 500)

\* the catch of POST's outer try
CatchAll(i) == Respond(i, 200)

\* mutant: a request without the header is let through
SecretRejectedIfPresent(secretToken, expectedSecret) ==
    secretToken # NoString /\ secretToken # expectedSecret

SecretRejected(secretToken, expectedSecret) == secretToken # expectedSecret

\* Step 1: verify the webhook secret token
Authenticate(i) ==
    /\ hpc[i] = "auth"
    /\ LET secretToken == request[i].header
           expectedSecret == env.secret
       IN  IF expectedSecret = NoString
           THEN Respond(i, 500)
           ELSE IF SecretRejected(secretToken, expectedSecret)
           THEN Respond(i, 401)
           ELSE Goto(i, "parse")
    /\ UNCHANGED <<env, request, loc, calls, db>>
    /\ UNCHANGED storeVars

\* Step 2: parse the update; reading a field of a null update throws
ParseUpdate(i) ==
    /\ hpc[i] = "parse"
    /\ CASE request[i].body = "malformed" -> Respond(i, 400)
         [] request[i].body = "null" -> CatchAll(i)
         [] OTHER -> Goto(i, "validate")
    /\ UNCHANGED <<env, request, loc, calls, db>>
    /\ UNCHANGED storeVars

\* telegramService.extractThreadId
ExtractThreadId(message) == message.message_thread_id

\* mutant: bot authors are not ignored
IgnoredButBots(message) ==
    \/ ~message.hasMessage
    \/ ~message.fromSupportGroup
    \/ message.message_thread_id = 0

Ignored(message) ==
    \/ ~message.hasMessage
    \/ ~message.fromSupportGroup
    \/ ExtractThreadId(message) = 0
    \/ message.is_bot

\* Step 3: extract and validate the message
ValidateMessage(i) ==
    /\ hpc[i] = "validate"
    /\ LET message == request[i].update
       IN  IF Ignored(message)
           THEN Respond(i, 200) /\ UNCHANGED loc
           ELSE /\ Goto(i, "lookup")
                /\ loc' = [loc EXCEPT ![i].threadId = ExtractThreadId(message)]
    /\ UNCHANGED <<env, request, calls, db>>
    /\ UNCHANGED storeVars

\* Step 4: find the conversation by thread id
FindConversation(i) ==
    /\ hpc[i] = "lookup"
    /\ \E outcome \in {"ok", "throw"} :
         /\ calls' = [calls EXCEPT ![i] = Append(@,
                Call("getConversationByThreadId", loc[i].threadId, 0, outcome))]
         /\ IF outcome = "throw"
            THEN CatchAll(i) /\ UNCHANGED loc
            ELSE LET conversation == ConversationOfThread(loc[i].threadId)
                 IN  /\ loc' = [loc EXCEPT ![i].conversation = conversation]
                     /\ IF conversation = 0
                        THEN IF env.configured
                             THEN Goto(i, "warn")
                             ELSE Respond(i, 200)
                        ELSE Goto(i, "extract")
    /\ UNCHANGED <<env, request, db>>
    /\ UNCHANGED storeVars

\* mutant: a failed warning post is answered as an error
SendWarningFatal(i) ==
    /\ hpc[i] = "warn"
    /\ \E outcome \in {"ok", "throw"} :
         /\ calls' = [calls EXCEPT ![i] = Append(@,
                Call("sendMessageToTopic", loc[i].threadId, "System", outcome))]
         /\ Respond(i, IF outcome = "ok" THEN 200 ELSE 500)
    /\ UNCHANGED <<env, request, loc, db>>
    /\ UNCHANGED storeVars

\* the warning posted to a topic that no conversation is linked to
SendWarning(i) ==
    /\ hpc[i] = "warn"
    /\ \E outcome \in {"ok", "throw"} :
         /\ calls' = [calls EXCEPT ![i] = Append(@,
                Call("sendMessageToTopic", loc[i].threadId, "System", outcome))]
         /\ Respond(i, 200)
    /\ UNCHANGED <<env, request, loc, db>>
    /\ UNCHANGED storeVars

Content(message) ==
    IF message.text # NoString THEN message.text ELSE message.caption

LargestPhoto(photo) == photo[Len(photo)]

\* Step 5: extract the content; start re-hosting the largest photo
ExtractContent(i) ==
    /\ hpc[i] = "extract"
    /\ LET message == request[i].update
       IN  IF Len(message.photo) > 0 /\ env.botToken
           THEN /\ loc' = [loc EXCEPT ![i].content = Content(message),
                                      ![i].fileId = LargestPhoto(message.photo)]
                /\ Goto(i, "getFile")
           ELSE /\ loc' = [loc EXCEPT ![i].content = Content(message)]
                /\ Goto(i, "save")
    /\ UNCHANGED <<env, request, calls, db>>
    /\ UNCHANGED storeVars

\* mutant: an exception while re-hosting escapes to POST's catch
ImageStepThrowing(i, at, op, next) ==
    /\ hpc[i] = at
    /\ \E outcome \in {"ok", "fail", "throw"} :
         /\ calls' = [calls EXCEPT ![i] =
                         Append(@, Call(op, loc[i].fileId, 0, outcome))]
         /\ CASE outcome = "ok" ->
                   /\ Goto(i, next)
                   /\ loc' = IF next = "save"
                             THEN [loc EXCEPT ![i].imageUrl = PublicUrl(loc[i].fileId)]
                             ELSE loc
              [] outcome = "fail" -> Goto(i, "save") /\ UNCHANGED loc
              [] OTHER -> Respond(i, 200) /\ UNCHANGED loc
    /\ UNCHANGED <<env, request, db>>
    /\ UNCHANGED storeVars

\* downloadAndUploadTelegramPhoto: a failure of any step returns null
ImageStep(i, at, op, next) ==
    /\ hpc[i] = at
    /\ \E outcome \in {"ok", "fail", "throw"} :
         /\ calls' = [calls EXCEPT ![i] =
                         Append(@, Call(op, loc[i].fileId, 0, outcome))]
         /\ IF outcome = "ok"
            THEN /\ Goto(i, next)
                 /\ loc' = IF next = "save"
                           THEN [loc EXCEPT ![i].imageUrl = PublicUrl(loc[i].fileId)]
                           ELSE loc
            ELSE Goto(i, "save") /\ UNCHANGED loc
    /\ UNCHANGED <<env, request, db>>
    /\ UNCHANGED storeVars

GetFile(i) == ImageStep(i, "getFile", "getFile", "download")

DownloadFile(i) == ImageStep(i, "download", "download", "upload")

UploadFile(i) == ImageStep(i, "upload", "upload", "save")

\* mutant: only a message without text and without photo is dropped
NothingToSaveNever(content, imageUrl) == FALSE

NothingToSave(content, imageUrl) == content = NoString /\ imageUrl = NoImage

\* mutant: the row is attached to the thread id, not to the conversation
MessageFieldsByThread(i) ==
    [conversation_id |-> loc[i].threadId,
     sender_type |-> "support",
     sender_name |-> request[i].update.first_name,
     sender_telegram_id |-> request[i].update.from_id,
     content |-> loc[i].content,
     image_url |-> loc[i].imageUrl]

MessageFields(i) ==
    [conversation_id |-> loc[i].conversation,
     sender_type |-> "support",
     sender_name |-> request[i].update.first_name,
     sender_telegram_id |-> request[i].update.from_id,
     content |-> loc[i].content,
     image_url |-> loc[i].imageUrl]

\* supportService.createMessage: the row the insert adds
NewRow(fields) ==
    [id |-> Len(db) + 1,
     conversation_id |-> fields.conversation_id,
     sender_type |-> fields.sender_type,
     sender_name |-> fields.sender_name,
     sender_telegram_id |-> fields.sender_telegram_id,
     content |-> fields.content,
     image_url |-> fields.image_url,
     telegram_message_id |-> 0]

\* Step 6: save the support message, unless there is nothing to save
SaveMessage(i) ==
    /\ hpc[i] = "save"
    /\ IF NothingToSave(loc[i].content, loc[i].imageUrl)
       THEN Respond(i, 200) /\ UNCHANGED <<loc, calls, db>>
       ELSE \E outcome \in {"ok", "throw"} :
              /\ calls' = [calls EXCEPT ![i] = Append(@,
                     Call("createMessage", MessageFields(i), 0, outcome))]
              /\ IF outcome = "ok"
                 THEN /\ db' = Append(db, NewRow(MessageFields(i)))
                      /\ loc' = [loc EXCEPT ![i].supportMessage = Len(db) + 1]
                      /\ Goto(i, "setId")
                 ELSE CatchAll(i) /\ UNCHANGED <<loc, db>>
    /\ UNCHANGED <<env, request>>
    /\ UNCHANGED storeVars

\* supportService.setMessageTelegramId
SetTelegramIdOf(rows, id, telegramId) ==
    [k \in 1..Len(rows) |->
        IF rows[k].id = id
        THEN [rows[k] EXCEPT !.telegram_message_id = telegramId]
        ELSE rows[k]]

\* save the Telegram message id on the new row, then answer
SetTelegramId(i) ==
    /\ hpc[i] = "setId"
    /\ \E outcome \in {"ok", "throw"} :
         /\ calls' = [calls EXCEPT ![i] = Append(@,
                Call("setMessageTelegramId", loc[i].supportMessage,
                     request[i].update.message_id, outcome))]
         /\ IF outcome = "ok"
            THEN /\ db' = SetTelegramIdOf(db, loc[i].supportMessage,
                                          request[i].update.message_id)
                 /\ Respond(i, 200)
            ELSE CatchAll(i) /\ UNCHANGED db
    /\ UNCHANGED <<env, request, loc>>
    /\ UNCHANGED storeVars

HookStep(i) ==
    \/ Authenticate(i)
    \/ ParseUpdate(i)
    \/ ValidateMessage(i)
    \/ FindConversation(i)
    \/ SendWarning(i)
    \/ ExtractContent(i)
    \/ GetFile(i)
    \/ DownloadFile(i)
    \/ UploadFile(i)
    \/ SaveMessage(i)
    \/ SetTelegramId(i)

----------------------------------------------------------------------------
(* Part II: the support store *)

MaxConversations == 2

ConversationIds == 1..MaxConversations

Contents == {"Hello"}       \* what the visitor sends

FirstTexts == {"Hi"}        \* the visitor's first message of a conversation

NoConversation == [id |-> 0, status |-> "none"]     \* currentConversation: null
NoSubscription == [conversationId |-> 0, channel |-> 0]   \* activeSubscription: null
NoError == ""                                       \* error: null

\* the input component with no submission in progress
NoSubmit == [phase |-> "idle", conversation |-> NoConversation, text |-> "",
             send |-> 0, imageUrl |-> NoImage]

\* a SupportMessage; a placeholder's id is negative (temp_...), a server's positive
Message(id, conversationId, senderType, content) ==
    [id |-> id, conversation_id |-> conversationId, sender_type |-> senderType,
     content |-> content]

TempId(n) == 0 - n

\* m.id.startsWith('temp_')
IsTemp(id) == id < 0

\* currentMessages.filter(m => m.id !== tempId)
WithoutId(ms, id) == SelectSeq(ms, LAMBDA m : m.id # id)

\* state.messages.filter(m => !m.id.startsWith('temp_'))
WithoutTemp(ms) == SelectSeq(ms, LAMBDA m : ~IsTemp(m.id))

\* state.messages.some(m => m.id === id)
MessageExists(ms, id) == \E k \in 1..Len(ms) : ms[k].id = id

\* the rows of a conversation, as the API lists them
RowsOf(c) == SelectSeq(srvMessages, LAMBDA m : m.conversation_id = c)

Known == {srvConversations[k] : k \in 1..Len(srvConversations)}

Without(seq, k) == [j \in 1..(Len(seq) - 1) |-> IF j < k THEN seq[j] ELSE seq[j + 1]]

\* ---- realtime channels ----

\* supabase.removeChannel(channel)
RemoveChannel(chs, id) == {ch \in chs : ch.id # id}

FreeIds(chs) == (1..MaxChannels) \ ({ch.id : ch \in chs} \cup handles)

NewId(chs) == CHOOSE id \in FreeIds(chs) : \A other \in FreeIds(chs) : id <= other

\* the unsubscribe function of the subscription on channel id: it removes its own
\* channel and clears the slot, whatever the slot holds
UnsubscribeOf(id, chs) == [sub |-> NoSubscription, chs |-> RemoveChannel(chs, id)]

\* subscribeToMessages(conversationId) on slot sub and channels chs: the slot and
\* the channels afterwards, and the channel whose unsubscribe function is returned
Subscribe(sub, chs, conversationId) ==
    IF sub # NoSubscription /\ sub.conversationId = conversationId
    THEN [sub |-> sub, chs |-> chs, returned |-> sub.channel]
    ELSE LET cleaned == IF sub # NoSubscription
                        THEN UnsubscribeOf(sub.channel, chs).chs
                        ELSE chs
             id == NewId(cleaned)
         IN  [sub |-> [conversationId |-> conversationId, channel |-> id],
              chs |-> cleaned \cup {[id |-> id, conversationId |-> conversationId,
                                     pending |-> <<>>]},
              returned |-> id]

\* a channel can be had for that call
CanSubscribe(sub, chs, conversationId) ==
    \/ sub # NoSubscription /\ sub.conversationId = conversationId
    \/ FreeIds(IF sub # NoSubscription THEN RemoveChannel(chs, sub.channel) ELSE chs) # {}

\* the server inserts a row: every open channel filtered on its conversation
\* gets the INSERT event
Publish(row) ==
    /\ srvMessages' = Append(srvMessages, row)
    /\ channels' = {IF ch.conversationId = row.conversation_id
                    THEN [ch EXCEPT !.pending = Append(@, row)]
                    ELSE ch : ch \in channels}

\* ---- UI actions ----

OpenWidget ==
    /\ isOpen' = TRUE
    /\ unreadCount' = 0
    /\ error' = NoError
    /\ UNCHANGED <<currentConversation, messages, isLoading, isSending>>
    /\ UNCHANGED <<clientVars, flightVars, serverVars>>
    /\ UNCHANGED <<widgetVars, inputVars>>
    /\ UNCHANGED hookVars

CloseWidget ==
    /\ isOpen' = FALSE
    /\ UNCHANGED <<unreadCount, currentConversation, messages, isLoading,
                   isSending, error>>
    /\ UNCHANGED <<clientVars, flightVars, serverVars>>
    /\ UNCHANGED <<widgetVars, inputVars>>
    /\ UNCHANGED hookVars

\* the widget's mount effect: getOrCreateAnonymousId
Mount ==
    /\ ~anonymousId
    /\ anonymousId' = TRUE
    /\ UNCHANGED <<activeSubscription, cache, channels, handles, droppedDuplicate, appended>>
    /\ UNCHANGED <<stateVars, flightVars, serverVars>>
    /\ UNCHANGED <<widgetVars, inputVars>>
    /\ UNCHANGED hookVars

\* ---- createConversation ----

\* the JSON body of the POST of createConversation
CreateBody(initialMessage) ==
    [anonymous_id |-> TRUE, initial_message |-> initialMessage]

DoCreateConversation(text) ==
    /\ creating = <<>>
    /\ isLoading' = TRUE
    /\ error' = NoError
    /\ creating' = Append(creating,
          [phase |-> "sent", text |-> text, conversation |-> NoConversation,
           messages |-> <<>>, body |-> CreateBody(text)])
    /\ UNCHANGED <<isOpen, unreadCount, currentConversation, messages, isSending>>
    /\ UNCHANGED <<clientVars, sends, loads, serverVars>>
    /\ UNCHANGED widgetVars
    /\ UNCHANGED hookVars

\* createConversation, called from outside the input component
CreateConversation(text) ==
    DoCreateConversation(text) /\ UNCHANGED inputVars

\* POST /api/support/conversations on the server: the conversation and the row
\* of its first message
ServerCreate(k) ==
    /\ k \in 1..Len(creating) /\ creating[k].phase = "sent"
    /\ Len(srvConversations) < MaxConversations
    /\ Len(srvMessages) < MaxRows
    /\ LET conversation == [id |-> Len(srvConversations) + 1, status |-> "open"]
           row == Message(Len(srvMessages) + 1, conversation.id, "user",
                          creating[k].text)
       IN  /\ srvConversations' = Append(srvConversations, conversation)
           /\ Publish(row)
           /\ creating' = [creating EXCEPT ![k] =
                 [@ EXCEPT !.phase = "created",
                           !.conversation = conversation,
                           !.messages = <<row>>]]
    /\ UNCHANGED <<stateVars, activeSubscription, anonymousId, cache, handles,
                   droppedDuplicate, appended, sends, loads>>
    /\ UNCHANGED <<widgetVars, inputVars>>
    /\ UNCHANGED hookVars

\* mutant: a failed creation leaves no conversation and no message
CreateResponseResetting(k) ==
    /\ k \in 1..Len(creating)
    /\ creating' = Without(creating, k)
    /\ IF creating[k].phase = "created"
       THEN /\ CanSubscribe(activeSubscription, channels, creating[k].conversation.id)
            /\ currentConversation' = creating[k].conversation
            /\ messages' = creating[k].messages
            /\ isLoading' = FALSE
            /\ LET s == Subscribe(activeSubscription, channels,
                                  creating[k].conversation.id)
               IN  activeSubscription' = s.sub /\ channels' = s.chs
            /\ UNCHANGED error
       ELSE /\ error' = "Failed to create conversation"
            /\ isLoading' = FALSE
            /\ currentConversation' = NoConversation
            /\ messages' = <<>>
            /\ UNCHANGED <<activeSubscription, channels>>
    /\ UNCHANGED <<isOpen, unreadCount, isSending>>
    /\ appended' = {}
    /\ UNCHANGED <<anonymousId, cache, handles, droppedDuplicate, sends, loads,
                   serverVars>>
    /\ UNCHANGED <<widgetVars, inputVars>>
    /\ UNCHANGED hookVars

\* the response of the POST: that of the server, or a failure when the server
\* created nothing
CreateResponse(k) ==
    /\ k \in 1..Len(creating)
    /\ creating' = Without(creating, k)
    /\ IF creating[k].phase = "created"
       THEN /\ CanSubscribe(activeSubscription, channels, creating[k].conversation.id)
            /\ currentConversation' = creating[k].conversation
            /\ messages' = creating[k].messages
            /\ isLoading' = FALSE
            /\ LET s == Subscribe(activeSubscription, channels,
                                  creating[k].conversation.id)
               IN  activeSubscription' = s.sub /\ channels' = s.chs
            /\ UNCHANGED error
       ELSE /\ error' = "Failed to create conversation"
            /\ isLoading' = FALSE
            /\ UNCHANGED <<currentConversation, messages, activeSubscription, channels>>
    /\ UNCHANGED <<isOpen, unreadCount, isSending>>
    /\ appended' = IF creating[k].phase = "created" THEN {} ELSE appended
    /\ UNCHANGED <<anonymousId, cache, handles, droppedDuplicate, sends, loads,
                   serverVars>>
    /\ UNCHANGED <<widgetVars, inputVars>>
    /\ UNCHANGED hookVars

\* ---- setCurrentConversation, loadConversationMessages ----

\* mutant: selecting none leaves the subscription as it is
SetCurrentConversationKeeping(conversation) ==
    LET cleaned == IF activeSubscription # NoSubscription /\ conversation # NoConversation
                   THEN UnsubscribeOf(activeSubscription.channel, channels)
                   ELSE [sub |-> activeSubscription, chs |-> channels]
    IN  /\ IF conversation # NoConversation
           THEN /\ currentConversation' = conversation
                /\ messages' = cache[conversation.id]
                /\ IF anonymousId
                   THEN /\ Len(loads) < MaxLoads
                        /\ FreeIds(cleaned.chs) # {}
                        /\ loads' = Append(loads,
                              [conversationId |-> conversation.id, phase |-> "sent",
                               messages |-> <<>>])
                        /\ LET s == Subscribe(cleaned.sub, cleaned.chs, conversation.id)
                           IN  activeSubscription' = s.sub /\ channels' = s.chs
                   ELSE /\ activeSubscription' = cleaned.sub
                        /\ channels' = cleaned.chs
                        /\ UNCHANGED loads
           ELSE /\ currentConversation' = NoConversation
                /\ messages' = <<>>
                /\ activeSubscription' = cleaned.sub
                /\ channels' = cleaned.chs
                /\ UNCHANGED loads
        /\ UNCHANGED <<isOpen, unreadCount, isLoading, isSending, error>>
        /\ appended' = {}
        /\ UNCHANGED <<anonymousId, cache, handles, droppedDuplicate, sends,
                       creating, serverVars>>
        /\ UNCHANGED <<widgetVars, inputVars>>
        /\ UNCHANGED hookVars

SetCurrentConversation(conversation) ==
    LET cleaned == IF activeSubscription # NoSubscription
                   THEN UnsubscribeOf(activeSubscription.channel, channels)
                   ELSE [sub |-> activeSubscription, chs |-> channels]
    IN  /\ IF conversation # NoConversation
           THEN /\ currentConversation' = conversation
                /\ messages' = cache[conversation.id]
                /\ IF anonymousId
                   THEN /\ Len(loads) < MaxLoads
                        /\ FreeIds(cleaned.chs) # {}
                        /\ loads' = Append(loads,
                              [conversationId |-> conversation.id, phase |-> "sent",
                               messages |-> <<>>])
                        /\ LET s == Subscribe(cleaned.sub, cleaned.chs, conversation.id)
                           IN  activeSubscription' = s.sub /\ channels' = s.chs
                   ELSE /\ activeSubscription' = cleaned.sub
                        /\ channels' = cleaned.chs
                        /\ UNCHANGED loads
           ELSE /\ currentConversation' = NoConversation
                /\ messages' = <<>>
                /\ activeSubscription' = cleaned.sub
                /\ channels' = cleaned.chs
                /\ UNCHANGED loads
        /\ UNCHANGED <<isOpen, unreadCount, isLoading, isSending, error>>
        /\ appended' = {}
        /\ UNCHANGED <<anonymousId, cache, handles, droppedDuplicate, sends,
                       creating, serverVars>>
        /\ UNCHANGED <<widgetVars, inputVars>>
        /\ UNCHANGED hookVars

\* GET /api/support/conversations/<id> on the server
ServerLoad(k) ==
    /\ k \in 1..Len(loads) /\ loads[k].phase = "sent"
    /\ loads' = [loads EXCEPT ![k] = [@ EXCEPT !.phase = "listed",
                    !.messages = RowsOf(loads[k].conversationId)]]
    /\ UNCHANGED <<stateVars, clientVars, sends, creating, serverVars>>
    /\ UNCHANGED <<widgetVars, inputVars>>
    /\ UNCHANGED hookVars

\* the same GET answered with no messages (data.messages absent or empty)
ServerLoadNone(k) ==
    /\ k \in 1..Len(loads) /\ loads[k].phase = "sent"
    /\ loads' = [loads EXCEPT ![k] = [@ EXCEPT !.phase = "listed",
                                               !.messages = <<>>]]
    /\ UNCHANGED <<stateVars, clientVars, sends, creating, serverVars>>
    /\ UNCHANGED <<widgetVars, inputVars>>
    /\ UNCHANGED hookVars

\* mutant: the response writes the cache whatever the length of the list
LoadResponseCachingEmpty(k) ==
    /\ k \in 1..Len(loads)
    /\ loads' = Without(loads, k)
    /\ IF loads[k].phase = "listed"
       THEN /\ messages' = loads[k].messages
            /\ cache' = [cache EXCEPT ![loads[k].conversationId] = loads[k].messages]
            /\ UNCHANGED error
       ELSE /\ error' = "Failed to load messages"
            /\ UNCHANGED <<messages, cache>>
    /\ UNCHANGED <<isOpen, unreadCount, currentConversation, isLoading, isSending>>
    /\ UNCHANGED <<activeSubscription, anonymousId, channels, handles,
                   droppedDuplicate, appended, sends, creating, serverVars>>
    /\ UNCHANGED <<widgetVars, inputVars>>
    /\ UNCHANGED hookVars

\* the response of the GET: the server's list, or a failure when the server
\* listed nothing
LoadResponse(k) ==
    /\ k \in 1..Len(loads)
    /\ loads' = Without(loads, k)
    /\ IF loads[k].phase = "listed"
       THEN /\ messages' = loads[k].messages
            /\ cache' = IF Len(loads[k].messages) > 0
                        THEN [cache EXCEPT ![loads[k].conversationId] = loads[k].messages]
                        ELSE cache
            /\ UNCHANGED error
       ELSE /\ error' = "Failed to load messages"
            /\ UNCHANGED <<messages, cache>>
    /\ UNCHANGED <<isOpen, unreadCount, currentConversation, isLoading, isSending>>
    /\ UNCHANGED <<activeSubscription, anonymousId, channels, handles,
                   droppedDuplicate, appended, sends, creating, serverVars>>
    /\ UNCHANGED <<widgetVars, inputVars>>
    /\ UNCHANGED hookVars

\* ---- sendMessage ----

\* the JSON body of the POST of sendMessage
SendBody(content, imageUrl) ==
    [content |-> content, image_url |-> imageUrl, anonymous_id |-> TRUE]

DoSendMessage(content, imageUrl) ==
    /\ currentConversation # NoConversation
    /\ anonymousId
    /\ Len(sends) < MaxSends
    /\ LET tempId == TempId(Len(sends) + 1)
           tempMessage == Message(tempId, currentConversation.id, "user", content)
       IN  /\ messages' = Append(messages, tempMessage)
           /\ sends' = Append(sends,
                 [tempId |-> tempId, conversationId |-> currentConversation.id,
                  content |-> content, phase |-> "posting", row |-> 0,
                  body |-> SendBody(content, imageUrl)])
    /\ isSending' = TRUE
    /\ error' = NoError
    /\ UNCHANGED <<isOpen, unreadCount, currentConversation, isLoading>>
    /\ UNCHANGED <<clientVars, loads, creating, serverVars>>
    /\ UNCHANGED widgetVars
    /\ UNCHANGED hookVars

\* sendMessage, called from outside the input component
SendMessage(content) ==
    DoSendMessage(content, NoImage) /\ UNCHANGED inputVars

\* POST /api/support/conversations/<id>/messages on the server
ServerPost(k) ==
    /\ k \in 1..Len(sends) /\ sends[k].phase = "posting"
    /\ Len(srvMessages) < MaxRows
    /\ Publish(Message(Len(srvMessages) + 1, sends[k].conversationId, "user",
                       sends[k].content))
    /\ sends' = [sends EXCEPT ![k] = [@ EXCEPT !.phase = "persisted",
                                               !.row = Len(srvMessages) + 1]]
    /\ UNCHANGED <<stateVars, activeSubscription, anonymousId, cache, handles,
                   droppedDuplicate, appended, loads, creating, srvConversations>>
    /\ UNCHANGED <<widgetVars, inputVars>>
    /\ UNCHANGED hookVars

\* mutant: a failed POST leaves its placeholder to the 500 ms cleanup
PostResponseDeferring(k) ==
    /\ k \in 1..Len(sends) /\ sends[k].phase \in {"persisted", "posting"}
    /\ IF sends[k].phase = "persisted"
       THEN /\ sends' = [sends EXCEPT ![k].phase = "timer"]
            /\ UNCHANGED <<messages, error, isSending>>
       ELSE /\ sends' = [sends EXCEPT ![k].phase = "timer"]
            /\ error' = "Failed to send message"
            /\ UNCHANGED <<messages, isSending>>
    /\ UNCHANGED <<isOpen, unreadCount, currentConversation, isLoading>>
    /\ UNCHANGED <<clientVars, loads, creating, serverVars>>
    /\ UNCHANGED <<widgetVars, inputVars>>
    /\ UNCHANGED hookVars

\* the response of the POST: a success (the row is persisted) arms the 500 ms
\* cleanup, a failure (nothing was persisted) removes the placeholder at once
PostResponse(k) ==
    /\ k \in 1..Len(sends) /\ sends[k].phase \in {"persisted", "posting"}
    /\ IF sends[k].phase = "persisted"
       THEN /\ sends' = [sends EXCEPT ![k].phase = "timer"]
            /\ UNCHANGED <<messages, error, isSending>>
       ELSE /\ sends' = [sends EXCEPT ![k].phase = "failed"]
            /\ messages' = WithoutId(messages, sends[k].tempId)
            /\ error' = "Failed to send message"
            /\ isSending' = FALSE
    /\ UNCHANGED <<isOpen, unreadCount, currentConversation, isLoading>>
    /\ UNCHANGED <<clientVars, loads, creating, serverVars>>
    /\ UNCHANGED <<widgetVars, inputVars>>
    /\ UNCHANGED hookVars

\* mutant: the callback clears the flag and leaves the placeholder
CleanupTimerKeeping(k) ==
    /\ k \in 1..Len(sends) /\ sends[k].phase = "timer"
    /\ sends' = [sends EXCEPT ![k].phase = "cleaned"]
    /\ isSending' = FALSE
    /\ UNCHANGED <<isOpen, unreadCount, currentConversation, messages, isLoading,
                   error>>
    /\ UNCHANGED <<clientVars, loads, creating, serverVars>>
    /\ UNCHANGED <<widgetVars, inputVars>>
    /\ UNCHANGED hookVars

\* the setTimeout callback of a successful send
CleanupTimer(k) ==
    /\ k \in 1..Len(sends) /\ sends[k].phase = "timer"
    /\ sends' = [sends EXCEPT ![k].phase = "cleaned"]
    /\ messages' = WithoutId(messages, sends[k].tempId)
    /\ isSending' = FALSE
    /\ UNCHANGED <<isOpen, unreadCount, currentConversation, isLoading, error>>
    /\ UNCHANGED <<clientVars, loads, creating, serverVars>>
    /\ UNCHANGED <<widgetVars, inputVars>>
    /\ UNCHANGED hookVars

\* ---- realtime ----

\* a component calls subscribeToMessages and keeps the function it returns
SubscribeToMessages(conversationId) ==
    /\ CanSubscribe(activeSubscription, channels, conversationId)
    /\ LET s == Subscribe(activeSubscription, channels, conversationId)
       IN  /\ activeSubscription' = s.sub
           /\ channels' = s.chs
           /\ handles' = handles \cup {s.returned}
    /\ UNCHANGED <<anonymousId, cache, droppedDuplicate, appended>>
    /\ UNCHANGED <<stateVars, flightVars, serverVars>>
    /\ UNCHANGED <<widgetVars, inputVars>>
    /\ UNCHANGED hookVars

\* the holder of an unsubscribe function calls it
Unsubscribe(id) ==
    /\ id \in handles
    /\ handles' = handles \ {id}
    /\ LET u == UnsubscribeOf(id, channels)
       IN  activeSubscription' = u.sub /\ channels' = u.chs
    /\ UNCHANGED <<anonymousId, cache, droppedDuplicate, appended>>
    /\ UNCHANGED <<stateVars, flightVars, serverVars>>
    /\ UNCHANGED <<widgetVars, inputVars>>
    /\ UNCHANGED hookVars

\* the webhook persists a support reply
DoSupportReply(conversationId) ==
    /\ Publish(Message(Len(srvMessages) + 1, conversationId, "support", "Reply"))
    /\ UNCHANGED <<stateVars, activeSubscription, anonymousId, cache, handles,
                   droppedDuplicate, appended, flightVars, srvConversations>>
    /\ UNCHANGED <<widgetVars, inputVars>>
    /\ UNCHANGED hookVars

SupportReply(conversationId) ==
    Len(srvMessages) < MaxRows /\ DoSupportReply(conversationId)

\* mutant: the handler adds the message without looking for its id
HandleInsertNoDedup(newMessage, conversationId) ==
    LET updatedMessages == Append(WithoutTemp(messages), newMessage)
    IN  /\ messages' = updatedMessages
        /\ cache' = [cache EXCEPT ![conversationId] = updatedMessages]
        /\ unreadCount' = IF newMessage.sender_type = "support" /\ ~isOpen
                          THEN unreadCount + 1
                          ELSE unreadCount
        /\ droppedDuplicate' = (droppedDuplicate
                                   \/ MessageExists(messages, newMessage.id))
        /\ appended' = appended \cup {newMessage.id}

\* mutant: the handler counts a support message whether the widget is open or not
HandleInsertCountingOpen(newMessage, conversationId) ==
    IF ~MessageExists(messages, newMessage.id)
    THEN LET updatedMessages == Append(WithoutTemp(messages), newMessage)
         IN  /\ messages' = updatedMessages
             /\ cache' = [cache EXCEPT ![conversationId] = updatedMessages]
             /\ unreadCount' = IF newMessage.sender_type = "support"
                               THEN unreadCount + 1
                               ELSE unreadCount
             /\ UNCHANGED droppedDuplicate
             /\ appended' = appended \cup {newMessage.id}
    ELSE /\ UNCHANGED <<messages, cache, unreadCount>>
         /\ droppedDuplicate' = TRUE
         /\ UNCHANGED appended

\* mutant: the handler puts the message at the head of the list
HandleInsertAtHead(newMessage, conversationId) ==
    IF ~MessageExists(messages, newMessage.id)
    THEN LET updatedMessages == <<newMessage>> \o WithoutTemp(messages)
         IN  /\ messages' = updatedMessages
             /\ cache' = [cache EXCEPT ![conversationId] = updatedMessages]
             /\ unreadCount' = IF newMessage.sender_type = "support" /\ ~isOpen
                               THEN unreadCount + 1
                               ELSE unreadCount
             /\ UNCHANGED droppedDuplicate
             /\ appended' = appended \cup {newMessage.id}
    ELSE /\ UNCHANGED <<messages, cache, unreadCount>>
         /\ droppedDuplicate' = TRUE
         /\ UNCHANGED appended

\* the INSERT handler of the channel subscribed for conversationId
HandleInsert(newMessage, conversationId) ==
    IF ~MessageExists(messages, newMessage.id)
    THEN LET updatedMessages == Append(WithoutTemp(messages), newMessage)
         IN  /\ messages' = updatedMessages
             /\ cache' = [cache EXCEPT ![conversationId] = updatedMessages]
             /\ unreadCount' = IF newMessage.sender_type = "support" /\ ~isOpen
                               THEN unreadCount + 1
                               ELSE unreadCount
             /\ UNCHANGED droppedDuplicate
             /\ appended' = appended \cup {newMessage.id}
    ELSE /\ UNCHANGED <<messages, cache, unreadCount>>
         /\ droppedDuplicate' = TRUE
         /\ UNCHANGED appended

\* an open channel delivers its next INSERT event
OnInsert(ch) ==
    /\ ch \in channels /\ ch.pending # <<>>
    /\ channels' = (channels \ {ch}) \cup {[ch EXCEPT !.pending = Tail(@)]}
    /\ HandleInsert(Head(ch.pending), ch.conversationId)
    /\ UNCHANGED <<isOpen, currentConversation, isLoading, isSending, error>>
    /\ UNCHANGED <<activeSubscription, anonymousId, handles, flightVars, serverVars>>
    /\ UNCHANGED <<widgetVars, inputVars>>
    /\ UNCHANGED hookVars

\* ---- loadConversations ----

LoadConversations ==
    /\ anonymousId
    /\ Len(lists) < MaxLists
    /\ isLoading' = TRUE
    /\ error' = NoError
    /\ lists' = Append(lists, [phase |-> "sent", conversations |-> <<>>])
    /\ UNCHANGED <<isOpen, unreadCount, currentConversation, messages, isSending>>
    /\ UNCHANGED <<clientVars, flightVars, serverVars>>
    /\ UNCHANGED <<conversations, updates, inputVars>>
    /\ UNCHANGED hookVars

\* GET /api/support/conversations on the server
ServerList(k) ==
    /\ k \in 1..Len(lists) /\ lists[k].phase = "sent"
    /\ lists' = [lists EXCEPT ![k] = [phase |-> "listed",
                                      conversations |-> srvConversations]]
    /\ UNCHANGED <<stateVars, clientVars, flightVars, serverVars>>
    /\ UNCHANGED <<conversations, updates, inputVars>>
    /\ UNCHANGED hookVars

\* mutant: a failed load empties the list
ListResponseClearing(k) ==
    /\ k \in 1..Len(lists)
    /\ lists' = Without(lists, k)
    /\ IF lists[k].phase = "listed"
       THEN /\ conversations' = lists[k].conversations
            /\ UNCHANGED error
       ELSE /\ error' = "Failed to load conversations"
            /\ conversations' = <<>>
    /\ isLoading' = FALSE
    /\ UNCHANGED <<isOpen, unreadCount, currentConversation, messages, isSending>>
    /\ UNCHANGED <<clientVars, flightVars, serverVars>>
    /\ UNCHANGED <<updates, inputVars>>
    /\ UNCHANGED hookVars

\* the response of the GET: the server's list, or a failure when the server
\* listed nothing
ListResponse(k) ==
    /\ k \in 1..Len(lists)
    /\ lists' = Without(lists, k)
    /\ IF lists[k].phase = "listed"
       THEN /\ conversations' = lists[k].conversations
            /\ UNCHANGED error
       ELSE /\ error' = "Failed to load conversations"
            /\ UNCHANGED conversations
    /\ isLoading' = FALSE
    /\ UNCHANGED <<isOpen, unreadCount, currentConversation, messages, isSending>>
    /\ UNCHANGED <<clientVars, flightVars, serverVars>>
    /\ UNCHANGED <<updates, inputVars>>
    /\ UNCHANGED hookVars

\* ---- updateConversationStatus ----

Statuses == {"open", "resolved", "closed"}

UpdateConversationStatus(status) ==
    /\ currentConversation # NoConversation
    /\ anonymousId
    /\ Len(updates) < MaxUpdates
    /\ updates' = Append(updates,
          [phase |-> "sent", conversationId |-> currentConversation.id,
           status |-> status, conversation |-> NoConversation])
    /\ UNCHANGED <<stateVars, clientVars, flightVars, serverVars>>
    /\ UNCHANGED <<conversations, lists, inputVars>>
    /\ UNCHANGED hookVars

\* PATCH /api/support/conversations/<id> on the server
ServerPatch(k) ==
    /\ k \in 1..Len(updates) /\ updates[k].phase = "sent"
    /\ LET conversation == [id |-> updates[k].conversationId,
                            status |-> updates[k].status]
       IN  /\ srvConversations' =
                 [srvConversations EXCEPT ![updates[k].conversationId] = conversation]
           /\ updates' = [updates EXCEPT ![k] =
                 [@ EXCEPT !.phase = "patched", !.conversation = conversation]]
    /\ UNCHANGED <<stateVars, clientVars, flightVars, srvMessages>>
    /\ UNCHANGED <<conversations, lists, inputVars>>
    /\ UNCHANGED hookVars

\* mutant: a failed PATCH is sent again
PatchResponseRetrying(k) ==
    /\ k \in 1..Len(updates)
    /\ IF updates[k].phase = "patched"
       THEN /\ updates' = Without(updates, k)
            /\ currentConversation' = updates[k].conversation
            /\ UNCHANGED error
       ELSE /\ updates' = updates
            /\ error' = "Failed to update conversation status"
            /\ UNCHANGED currentConversation
    /\ UNCHANGED <<isOpen, unreadCount, messages, isLoading, isSending>>
    /\ UNCHANGED <<clientVars, flightVars, serverVars>>
    /\ UNCHANGED <<conversations, lists, inputVars>>
    /\ UNCHANGED hookVars

\* the response of the PATCH: the server's conversation, or a failure when the
\* server patched nothing
PatchResponse(k) ==
    /\ k \in 1..Len(updates)
    /\ updates' = Without(updates, k)
    /\ IF updates[k].phase = "patched"
       THEN /\ currentConversation' = updates[k].conversation
            /\ UNCHANGED error
       ELSE /\ error' = "Failed to update conversation status"
            /\ UNCHANGED currentConversation
    /\ UNCHANGED <<isOpen, unreadCount, messages, isLoading, isSending>>
    /\ UNCHANGED <<clientVars, flightVars, serverVars>>
    /\ UNCHANGED <<conversations, lists, inputVars>>
    /\ UNCHANGED hookVars

\* ---- the input component ----

\* the component renders the send form
FormRendered == currentConversation.status \notin {"closed", "resolved"}

\* the promise handleSubmit awaits is not settled
Outstanding(s) ==
    IF s.send = 0
    THEN creating # <<>>
    ELSE sends[s.send].phase \in {"posting", "persisted"}

IsSubmitting ==
    \/ submit.phase = "uploading"
    \/ submit.phase = "awaiting" /\ Outstanding(submit)

\* uploadData.url of a successful POST /api/support/upload
UploadUrl == PublicUrl(1)

\* the visitor types into the field (disabled while a submission is under way)
Type(text) ==
    /\ FormRendered
    /\ ~IsSubmitting /\ ~isSending
    /\ inputMessage # text
    /\ inputMessage' = text
    /\ UNCHANGED <<stateVars, clientVars, flightVars, serverVars, widgetVars>>
    /\ UNCHANGED <<submit, selectedImage, startedNew>>
    /\ UNCHANGED hookVars

\* handleImageSelect with a file of an allowed type and size
HandleImageSelect ==
    /\ FormRendered
    /\ ~IsSubmitting /\ ~isSending
    /\ ~selectedImage
    /\ selectedImage' = TRUE
    /\ UNCHANGED <<stateVars, clientVars, flightVars, serverVars, widgetVars>>
    /\ UNCHANGED <<submit, inputMessage, startedNew>>
    /\ UNCHANGED hookVars

\* handleSubmit past the upload: the inputs are cleared, then createConversation
\* or sendMessage is awaited, as the currentConversation of the render that
\* submitted says.  Neither promise rejects (each store action catches its own
\* failure), so the catch that puts the text back is never entered.
SubmitCall(conversation, text, imageUrl) ==
    /\ inputMessage' = ""
    /\ selectedImage' = FALSE
    /\ IF conversation = NoConversation
       THEN /\ DoCreateConversation(IF text # "" THEN text ELSE "Image")
            /\ startedNew' = FALSE
            /\ submit' = [phase |-> "awaiting", conversation |-> conversation,
                          text |-> text, send |-> 0, imageUrl |-> imageUrl]
       ELSE IF currentConversation = NoConversation \/ ~anonymousId
            THEN /\ submit' = NoSubmit
                 /\ UNCHANGED <<stateVars, clientVars, flightVars, serverVars>>
                 /\ UNCHANGED <<widgetVars, startedNew>>
                 /\ UNCHANGED hookVars
            ELSE /\ DoSendMessage(text, imageUrl)
                 /\ UNCHANGED startedNew
                 /\ submit' = [phase |-> "awaiting", conversation |-> conversation,
                               text |-> text, send |-> Len(sends) + 1,
                               imageUrl |-> imageUrl]

\* the visitor submits the form
HandleSubmit ==
    /\ FormRendered
    /\ ~(IsSubmitting \/ isSending \/ ~anonymousId
            \/ (inputMessage = "" /\ ~selectedImage))
    /\ IF selectedImage
       THEN /\ submit' = [phase |-> "uploading",
                          conversation |-> currentConversation,
                          text |-> inputMessage, send |-> 0, imageUrl |-> NoImage]
            /\ UNCHANGED <<stateVars, clientVars, flightVars, serverVars>>
            /\ UNCHANGED <<widgetVars, inputMessage, selectedImage, startedNew>>
            /\ UNCHANGED hookVars
       ELSE SubmitCall(currentConversation, inputMessage, NoImage)

\* mutant: a failed upload goes on to the call, without image
UploadResponseProceeding(ok) ==
    /\ submit.phase = "uploading"
    /\ SubmitCall(submit.conversation, submit.text,
                  IF ok THEN UploadUrl ELSE NoImage)

\* the response of POST /api/support/upload
UploadResponse(ok) ==
    /\ submit.phase = "uploading"
    /\ IF ok
       THEN SubmitCall(submit.conversation, submit.text, UploadUrl)
       ELSE /\ error' = "Failed to upload image. Please try again."
            /\ submit' = NoSubmit
            /\ UNCHANGED <<isOpen, unreadCount, currentConversation, messages,
                           isLoading, isSending>>
            /\ UNCHANGED <<clientVars, flightVars, serverVars>>
            /\ UNCHANGED <<widgetVars, inputMessage, selectedImage, startedNew>>
            /\ UNCHANGED hookVars

\* the "Start New Ticket" button, rendered in place of the form
StartNewTicket ==
    /\ ~FormRendered
    /\ currentConversation' = NoConversation
    /\ messages' = <<>>
    /\ inputMessage' = ""
    /\ error' = NoError
    /\ startedNew' = TRUE
    /\ UNCHANGED <<isOpen, unreadCount, isLoading, isSending>>
    /\ UNCHANGED <<clientVars, flightVars, serverVars, widgetVars>>
    /\ UNCHANGED <<submit, selectedImage>>
    /\ UNCHANGED hookVars

\* ---- the widget ----

\* the restore effect of the widget, run after a render in which conversations
\* or currentConversation changed.  The persist effect declared before it has
\* removed support_current_conversation_id whenever currentConversation is
\* null, so the effect finds no saved id and selects the most recent
\* conversation; the timestamps it sorts by are not modelled and any listed
\* conversation may be the most recent one.
RestoreEffect ==
    /\ ~(currentConversation # NoConversation \/ conversations = <<>>)
    /\ \E n \in 1..Len(conversations) : SetCurrentConversation(conversations[n])

----------------------------------------------------------------------------
(* Specifications *)

HookIdle ==
    /\ env = [secret |-> "s3cret", botToken |-> TRUE, configured |-> TRUE]
    /\ request = [i \in Invocations |->
                    [header |-> NoString, body |-> "update", update |-> NoUpdate]]
    /\ hpc = [i \in Invocations |-> "absent"]
    /\ loc = [i \in Invocations |-> NoLocals]
    /\ calls = [i \in Invocations |-> <<>>]
    /\ resp = [i \in Invocations |-> 0]
    /\ db = <<>>

\* the store as create() builds it, nothing in localStorage, no conversation yet
StoreConstructed ==
    /\ isOpen = FALSE
    /\ unreadCount = 0
    /\ currentConversation = NoConversation
    /\ messages = <<>>
    /\ isLoading = FALSE
    /\ isSending = FALSE
    /\ error = NoError
    /\ activeSubscription = NoSubscription
    /\ anonymousId = FALSE
    /\ cache = [c \in ConversationIds |-> <<>>]
    /\ channels = {}
    /\ handles = {}
    /\ sends = <<>>
    /\ loads = <<>>
    /\ creating = <<>>
    /\ srvConversations = <<>>
    /\ srvMessages = <<>>
    /\ droppedDuplicate = FALSE
    /\ appended = {}
    /\ conversations = <<>>
    /\ lists = <<>>
    /\ updates = <<>>
    /\ submit = NoSubmit
    /\ inputMessage = ""
    /\ selectedImage = FALSE
    /\ startedNew = FALSE

\* one delivery of an arbitrary request; invocation 2 is not started
InitHook ==
    /\ env \in Envs
    /\ \E r \in Requests : request = [i \in Invocations |-> r]
    /\ hpc = [i \in Invocations |-> IF i = 1 THEN "auth" ELSE "absent"]
    /\ loc = [i \in Invocations |-> NoLocals]
    /\ calls = [i \in Invocations |-> <<>>]
    /\ resp = [i \in Invocations |-> 0]
    /\ db = <<>>
    /\ StoreConstructed

NextHook == \E i \in Invocations : HookStep(i)

SpecHook == InitHook /\ [][NextHook]_vars

\* the platform delivers one update twice: two invocations of the handler with
\* the same request, their steps interleaved in every order
InitRedelivery ==
    /\ env \in Envs
    /\ \E r \in Requests : request = [i \in Invocations |-> r]
    /\ hpc = [i \in Invocations |-> "auth"]
    /\ loc = [i \in Invocations |-> NoLocals]
    /\ calls = [i \in Invocations |-> <<>>]
    /\ resp = [i \in Invocations |-> 0]
    /\ db = <<>>
    /\ StoreConstructed

SpecRedelivery == InitRedelivery /\ [][NextHook]_vars

InitStore == HookIdle /\ StoreConstructed

\* the store as the widget and the input of src/ drive it
NextStore ==
    \/ OpenWidget
    \/ CloseWidget
    \/ Mount
    \/ \E text \in FirstTexts : CreateConversation(text)
    \/ \E k \in 1..Len(creating) : ServerCreate(k) \/ CreateResponse(k)
    \/ \E conversation \in Known \cup {NoConversation} :
          SetCurrentConversation(conversation)
    \/ \E k \in 1..Len(loads) : ServerLoad(k) \/ LoadResponse(k)
    \/ \E content \in Contents : SendMessage(content)
    \/ \E k \in 1..Len(sends) : ServerPost(k) \/ PostResponse(k) \/ CleanupTimer(k)
    \/ \E conversation \in Known : SupportReply(conversation.id)
    \/ \E ch \in channels : OnInsert(ch)

SpecStore == InitStore /\ [][NextStore]_vars

\* every fetch of sendMessage resolves and every timer it arms fires
SendsResolve ==
    \A k \in 1..MaxSends : WF_vars(PostResponse(k)) /\ WF_vars(CleanupTimer(k))

\* the sends of the visitor between selections, loads and realtime events
NextSends ==
    \/ Mount
    \/ \E text \in FirstTexts : CreateConversation(text)
    \/ \E k \in 1..Len(creating) : ServerCreate(k) \/ CreateResponse(k)
    \/ \E conversation \in Known \cup {NoConversation} :
          SetCurrentConversation(conversation)
    \/ \E k \in 1..Len(loads) : ServerLoad(k) \/ LoadResponse(k)
    \/ \E content \in Contents : SendMessage(content)
    \/ \E k \in 1..Len(sends) : ServerPost(k) \/ PostResponse(k) \/ CleanupTimer(k)
    \/ \E ch \in channels : OnInsert(ch)

SpecSendsFair == InitStore /\ [][NextSends]_vars /\ SendsResolve

\* the subscription slot under any caller of createConversation,
\* setCurrentConversation, subscribeToMessages and the functions it returns
NextSubscriptions ==
    \/ Mount
    \/ \E text \in FirstTexts : CreateConversation(text)
    \/ \E k \in 1..Len(creating) : ServerCreate(k) \/ CreateResponse(k)
    \/ \E conversation \in Known \cup {NoConversation} :
          SetCurrentConversation(conversation)
    \/ \E k \in 1..Len(loads) : ServerLoad(k) \/ LoadResponse(k)
    \/ \E conversation \in Known : SubscribeToMessages(conversation.id)
    \/ \E id \in handles : Unsubscribe(id)

SpecSubscriptions == InitStore /\ [][NextSubscriptions]_vars

\* the conversation list, the creation of a conversation and the loading of
\* the messages of a selected one
NextConversations ==
    \/ Mount
    \/ LoadConversations
    \/ \E k \in 1..Len(lists) : ServerList(k) \/ ListResponse(k)
    \/ \E text \in FirstTexts : CreateConversation(text)
    \/ \E k \in 1..Len(creating) : ServerCreate(k) \/ CreateResponse(k)
    \/ \E conversation \in Known \cup {NoConversation} :
          SetCurrentConversation(conversation)
    \/ \E k \in 1..Len(loads) : ServerLoad(k) \/ ServerLoadNone(k) \/ LoadResponse(k)

SpecConversations == InitStore /\ [][NextConversations]_vars

\* no request of the store is in flight
Quiet ==
    /\ lists = <<>> /\ loads = <<>> /\ creating = <<>> /\ updates = <<>>
    /\ \A k \in 1..Len(sends) : sends[k].phase \notin {"posting", "persisted"}

\* the five network operations of the store, called one after the other, each
\* with its request on the server and its response
NextRequests ==
    \/ Mount
    \/ Quiet /\ LoadConversations
    \/ \E k \in 1..Len(lists) : ServerList(k) \/ ListResponse(k)
    \/ \E text \in FirstTexts : Quiet /\ CreateConversation(text)
    \/ \E k \in 1..Len(creating) : ServerCreate(k) \/ CreateResponse(k)
    \/ \E conversation \in Known \cup {NoConversation} :
          Quiet /\ SetCurrentConversation(conversation)
    \/ \E k \in 1..Len(loads) : ServerLoad(k) \/ LoadResponse(k)
    \/ \E status \in Statuses : Quiet /\ UpdateConversationStatus(status)
    \/ \E k \in 1..Len(updates) : ServerPatch(k) \/ PatchResponse(k)
    \/ \E content \in Contents : Quiet /\ SendMessage(content)
    \/ \E k \in 1..Len(sends) : ServerPost(k) \/ PostResponse(k)

SpecRequests == InitStore /\ [][NextRequests]_vars

\* the input component submitting, with the status of the conversation changing
NextInput ==
    \/ Mount
    \/ \E text \in Contents : Type(text)
    \/ HandleImageSelect
    \/ HandleSubmit
    \/ \E ok \in BOOLEAN : UploadResponse(ok)
    \/ \E k \in 1..Len(creating) : ServerCreate(k) \/ CreateResponse(k)
    \/ \E status \in Statuses : UpdateConversationStatus(status)
    \/ \E k \in 1..Len(updates) : ServerPatch(k) \/ PatchResponse(k)
    \/ \E k \in 1..Len(sends) : ServerPost(k) \/ PostResponse(k) \/ CleanupTimer(k)
    \/ \E ch \in channels : OnInsert(ch)

SpecInput == InitStore /\ [][NextInput]_vars

\* the widget and the form: the list of conversations, the restore effect, a
\* conversation created, closed and left through "Start New Ticket"; the
\* visitor starts a request when no other is in flight
NextWidget ==
    \/ Mount
    \/ Quiet /\ LoadConversations
    \/ \E k \in 1..Len(lists) : ServerList(k) \/ ListResponse(k)
    \/ RestoreEffect
    \/ \E k \in 1..Len(loads) : ServerLoad(k) \/ LoadResponse(k)
    \/ \E text \in Contents : Type(text)
    \/ Quiet /\ HandleSubmit
    \/ \E k \in 1..Len(creating) : ServerCreate(k) \/ CreateResponse(k)
    \/ \E k \in 1..Len(sends) : ServerPost(k) \/ PostResponse(k) \/ CleanupTimer(k)
    \/ Quiet /\ UpdateConversationStatus("closed")
    \/ \E k \in 1..Len(updates) : ServerPatch(k) \/ PatchResponse(k)
    \/ StartNewTicket

SpecWidget == InitStore /\ [][NextWidget]_vars

MaxCacheRows == 3

\* the writers of the cache: load responses and the realtime handler, with two
\* conversations and a support reply
NextCache ==
    \/ Mount
    \/ \E text \in FirstTexts : CreateConversation(text)
    \/ \E k \in 1..Len(creating) : ServerCreate(k) \/ CreateResponse(k)
    \/ \E conversation \in Known \cup {NoConversation} :
          SetCurrentConversation(conversation)
    \/ \E k \in 1..Len(loads) : ServerLoad(k) \/ LoadResponse(k)
    \/ \E conversation \in Known :
          Len(srvMessages) < MaxCacheRows /\ DoSupportReply(conversation.id)
    \/ \E ch \in channels : OnInsert(ch)

SpecCache == InitStore /\ [][NextCache]_vars


----------------------------------------------------------------------------
(* Part I: the claims about the webhook *)

CallsOf(i, ops) == SelectSeq(calls[i], LAMBDA c : c.op \in ops)

OpNames(cs) == [k \in 1..Len(cs) |-> cs[k].op]

Failed(i, ops) == \E k \in 1..Len(calls[i]) :
                     calls[i][k].op \in ops /\ calls[i][k].outcome # "ok"

PersistenceOps == {"getConversationByThreadId", "createMessage", "setMessageTelegramId"}
ImageOps == {"getFile", "download", "upload"}

Done(i) == hpc[i] = "done"

Authenticated(i) == env.secret # NoString /\ request[i].header = env.secret

WellFormed(i) == request[i].body = "update"

\* the update is one of those step 3 is to drop
Ignorable(i) ==
    \/ ~request[i].update.hasMessage
    \/ ~request[i].update.fromSupportGroup
    \/ request[i].update.message_thread_id = 0
    \/ request[i].update.is_bot

\* the update passes step 3 and its thread resolves to a conversation
Resolvable(i) ==
    /\ Authenticated(i) /\ WellFormed(i)
    /\ request[i].update.hasMessage
    /\ request[i].update.fromSupportGroup
    /\ ~request[i].update.is_bot
    /\ ConversationOfThread(request[i].update.message_thread_id) # 0

\* C1: with a secret configured, a request whose secret header differs from it
\* is answered 401 by the first step, whatever its payload: no collaborator is
\* called and no message is persisted.  (With no secret configured the answer
\* is 500: see C5.)
C1_Unauthorized ==
    \A i \in Invocations :
        (hpc[i] \notin {"absent", "auth"}
         /\ env.secret # NoString /\ request[i].header # env.secret)
        => /\ Done(i) /\ resp[i] = 401
           /\ calls[i] = <<>>
           /\ db = <<>>

C1_Witness ==
    /\ Done(1) /\ resp[1] = 401
    /\ request[1].body = "malformed"
    /\ request[1].header = "wrong"

\* C2: an update with the right secret, from the support group, not by a bot,
\* with text or caption, whose thread resolves to a conversation: when the
\* invocation has answered and none of its persistence calls failed, it has
\* called createMessage once and then setMessageTelegramId once, exactly one
\* row is persisted, with sender_type support, for the resolved conversation,
\* carrying the Telegram message id.
C2_OneSupportMessage ==
    \A i \in Invocations :
        (Done(i) /\ Resolvable(i) /\ Content(request[i].update) # NoString
         /\ ~Failed(i, PersistenceOps))
        => /\ OpNames(CallsOf(i, {"createMessage", "setMessageTelegramId"}))
                = <<"createMessage", "setMessageTelegramId">>
           /\ Len(db) = 1
           /\ db[1].sender_type = "support"
           /\ db[1].conversation_id
                = ConversationOfThread(request[i].update.message_thread_id)
           /\ db[1].content = Content(request[i].update)
           /\ db[1].telegram_message_id = request[i].update.message_id
           /\ CallsOf(i, {"setMessageTelegramId"})[1].x = db[1].id
           /\ resp[i] = 200

C2_Witness ==
    /\ Done(1) /\ Resolvable(1)
    /\ request[1].update.message_thread_id = 2
    /\ request[1].update.message_id = 2
    /\ Len(db) = 1 /\ db[1].conversation_id = 12
    /\ db[1].telegram_message_id = 2

\* C3: an authenticated, well-formed update without a message, or not from the
\* support group, or without a thread id, or by a bot, is acknowledged with 200
\* by step 3: nothing is persisted, no conversation is looked up and no warning
\* is posted.
C3_Ignored ==
    \A i \in Invocations :
        (Authenticated(i) /\ WellFormed(i) /\ Ignorable(i)
         /\ hpc[i] \notin {"absent", "auth", "parse", "validate"})
        => /\ Done(i) /\ resp[i] = 200
           /\ calls[i] = <<>>
           /\ db = <<>>

C3_Witness ==
    /\ Done(1) /\ resp[1] = 200 /\ Authenticated(1) /\ WellFormed(1)
    /\ request[1].update.hasMessage
    /\ request[1].update.fromSupportGroup
    /\ request[1].update.message_thread_id = 1
    /\ request[1].update.is_bot

\* the lookup of invocation i answered that no conversation has the thread
LookupFoundNothing(i) ==
    /\ CallsOf(i, {"getConversationByThreadId"}) # <<>>
    /\ ~Failed(i, {"getConversationByThreadId"})
    /\ loc[i].conversation = 0

Warnings(i) == CallsOf(i, {"sendMessageToTopic"})

\* C4 as stated: a thread without conversation always gets a warning send.
C4_WarningAlways ==
    \A i \in Invocations :
        (Done(i) /\ LookupFoundNothing(i))
        => /\ db = <<>>
           /\ Len(Warnings(i)) = 1
           /\ resp[i] = 200

\* C4 (amended): for a thread without conversation nothing is persisted and
\* the answer is 200 whether the warning send succeeds or fails; the warning
\* is sent, once and to the originating topic, exactly when the platform
\* client is configured.
C4_WarningWhenConfigured ==
    \A i \in Invocations :
        (Done(i) /\ LookupFoundNothing(i))
        => /\ db = <<>>
           /\ CallsOf(i, {"createMessage", "setMessageTelegramId"}) = <<>>
           /\ resp[i] = 200
           /\ Len(Warnings(i)) = (IF env.configured THEN 1 ELSE 0)
           /\ \A k \in 1..Len(Warnings(i)) :
                 Warnings(i)[k].x = request[i].update.message_thread_id

C4_Witness ==
    /\ Done(1) /\ LookupFoundNothing(1) /\ resp[1] = 200
    /\ Len(Warnings(1)) = 1
    /\ Warnings(1)[1].outcome = "throw"

\* C5: an invocation that passed authentication and parsing answers 200,
\* whatever happens later; 500 is answered only for a missing secret, 401 only
\* for a wrong secret header and 400 only for a body that is not JSON.
C5_AlwaysAcknowledged ==
    \A i \in Invocations :
        /\ (Done(i) /\ Authenticated(i) /\ request[i].body # "malformed")
              => resp[i] = 200
        /\ resp[i] \in {0, 200, 400, 401, 500}
        /\ resp[i] = 500 => env.secret = NoString /\ calls[i] = <<>>
        /\ resp[i] = 401 => ~Authenticated(i) /\ calls[i] = <<>>
        /\ resp[i] = 400 => request[i].body = "malformed" /\ calls[i] = <<>>

C5_Witness ==
    /\ Done(1) /\ resp[1] = 200
    /\ Failed(1, {"createMessage"})

C5_WitnessSetId ==
    /\ Done(1) /\ resp[1] = 200
    /\ Failed(1, {"setMessageTelegramId"})

\* re-hosting the photo of invocation i was started and failed
ImageFailed(i) == loc[i].fileId # 0 /\ Failed(i, ImageOps)

\* C6 as stated: when re-hosting the image fails and persistence works, the
\* message is still persisted, without image URL.
C6_AlwaysPersisted ==
    \A i \in Invocations :
        (Done(i) /\ ImageFailed(i) /\ ~Failed(i, PersistenceOps))
        => /\ Len(db) = 1
           /\ db[1].image_url = NoImage
           /\ resp[i] = 200

\* C6 (amended): when re-hosting the image fails, processing goes on without
\* image URL and the answer is 200: a message with text or caption is handed
\* to createMessage once, without image URL, and is persisted when that call
\* succeeds; a message without text and caption is not persisted.
C6_ImageOmitted ==
    \A i \in Invocations :
        (Done(i) /\ ImageFailed(i))
        => /\ resp[i] = 200
           /\ loc[i].imageUrl = NoImage
           /\ IF Content(request[i].update) # NoString
              THEN /\ Len(CallsOf(i, {"createMessage"})) = 1
                   /\ CallsOf(i, {"createMessage"})[1].x.image_url = NoImage
                   /\ CallsOf(i, {"createMessage"})[1].x.content
                        = Content(request[i].update)
                   /\ ~Failed(i, {"createMessage"})
                        => /\ Len(db) = 1
                           /\ db[1].image_url = NoImage
                           /\ db[1].content = Content(request[i].update)
              ELSE /\ CallsOf(i, {"createMessage"}) = <<>>
                   /\ db = <<>>

C6_Witness ==
    /\ Done(1) /\ resp[1] = 200
    /\ Failed(1, {"download"})
    /\ calls[1][Len(calls[1]) - 2].outcome = "throw"
    /\ Len(db) = 1 /\ db[1].image_url = NoImage /\ db[1].content = "caption"

\* C7: no persisted row lacks both content and image URL; an invocation that
\* ends extraction with neither text nor image calls no createMessage,
\* persists nothing and answers 200.
C7_NeverEmpty ==
    /\ \A k \in 1..Len(db) : db[k].content # NoString \/ db[k].image_url # NoImage
    /\ \A i \in Invocations :
         (hpc[i] \in {"setId", "done"}
          /\ CallsOf(i, {"getConversationByThreadId"}) # <<>>
          /\ ~Failed(i, {"getConversationByThreadId"})
          /\ loc[i].conversation # 0
          /\ loc[i].content = NoString /\ loc[i].imageUrl = NoImage)
         => /\ Done(i) /\ resp[i] = 200
            /\ CallsOf(i, {"createMessage"}) = <<>>
            /\ db = <<>>

C7_Witness ==
    /\ Done(1) /\ resp[1] = 200 /\ db = <<>>
    /\ loc[1].conversation # 0
    /\ Len(request[1].update.photo) = 2
    /\ Content(request[1].update) = NoString
    /\ Failed(1, {"upload"})

C7_WitnessImageOnly ==
    /\ Len(db) = 1 /\ db[1].content = NoString /\ db[1].image_url = PublicUrl(2)

----------------------------------------------------------------------------
(* Claims about the store *)

\* how many entries of a message list carry the content
Occurrences(list, content) ==
    Cardinality({n \in DOMAIN list : list[n].content = content})

\* send k is the only source of its content, it is for the conversation on
\* screen, and the channel of that conversation is open to deliver its event
Tracked(k) ==
    /\ sends[k].conversationId = currentConversation.id
    /\ \A j \in 1..Len(sends) : j # k => sends[j].content # sends[k].content
    /\ \A n \in 1..Len(srvMessages) :
          srvMessages[n].content = sends[k].content => n = sends[k].row
    /\ activeSubscription.conversationId = sends[k].conversationId
    /\ \E ch \in channels : /\ ch.id = activeSubscription.channel
                            /\ ch.conversationId = sends[k].conversationId

\* the step is one of the three of send k: the response of its POST, the
\* delivery of the event of its row, its deferred cleanup
OwnStep(k) ==
    \/ sends[k].phase = "persisted" /\ PostResponse(k)
    \/ CleanupTimer(k)
    \/ \E ch \in channels : /\ ch.pending # <<>>
                            /\ Head(ch.pending).id = sends[k].row
                            /\ OnInsert(ch)

\* C8: optimistic substitution. For a send on the current conversation whose
\* POST succeeds, none of the HTTP response, the realtime event of the
\* persisted row and the 500 ms cleanup, in whatever order they come, takes the
\* message list away from holding exactly one entry with the content sent.
C8_ExactlyOne ==
    [][\A k \in 1..Len(sends) :
         (Tracked(k) /\ OwnStep(k)
            /\ Occurrences(messages, sends[k].content) = 1)
         => Occurrences(messages', sends[k].content) = 1]_vars

\* no server id appears twice in the message list
NoDuplicateIds ==
    \A m, n \in DOMAIN messages :
        messages[m].id = messages[n].id => m = n

\* C9: realtime dedup. Handling an INSERT event whose message id is already
\* in the message list changes neither the list, nor the device-local cache,
\* nor the unread counter, and the list never holds one id twice.
C9_Dedup ==
    /\ []NoDuplicateIds
    /\ [][\A ch \in channels :
            (/\ ch.pending # <<>>
             /\ MessageExists(messages, Head(ch.pending).id)
             /\ OnInsert(ch))
            => UNCHANGED <<messages, cache, unreadCount>>]_vars

\* C9 witness: the handler has met an event whose id the list already held,
\* and the list holds that one support reply once, while the widget is closed
C9_Witness ==
    /\ droppedDuplicate
    /\ ~isOpen
    /\ \E n \in DOMAIN messages : messages[n].sender_type = "support"
    /\ \A ch \in channels : ch.pending = <<>>

\* C10: subscription exclusivity. Whatever createConversation,
\* setCurrentConversation, subscribeToMessages and the unsubscribe functions
\* they returned are called in whatever order, at most one realtime channel is
\* open, and a subscription recorded as active is the one open channel.
C10_OneChannel ==
    /\ Cardinality(channels) <= 1
    /\ activeSubscription # NoSubscription
         => channels = {ch \in channels : ch.id = activeSubscription.channel}

\* C11: cache coherence. A loadConversationMessages of conversation c that
\* succeeds with a non-empty list leaves exactly that list, in that order, in
\* the cache entry of c and touches no other entry; one that returns no
\* message, or fails, leaves the whole cache as it was.
C11_CacheCoherence ==
    [][\A k \in 1..Len(loads) :
         LoadResponse(k) =>
           IF loads[k].phase = "listed" /\ Len(loads[k].messages) > 0
           THEN cache' = [cache EXCEPT ![loads[k].conversationId] =
                                          loads[k].messages]
           ELSE cache' = cache]_vars

\* C11 witness: a load of the current conversation has returned no message (the
\* list is empty) after an earlier load had cached its messages (the entry is
\* still there)
C11_Witness ==
    /\ currentConversation # NoConversation
    /\ messages = <<>>
    /\ Len(cache[currentConversation.id]) > 0
    /\ loads = <<>>

\* C12: status-gated input. While the status of the current conversation is
\* resolved or closed no step adds an optimistic message to the list or makes
\* the POST of a message.
C12_StatusGated ==
    [][currentConversation.status \in {"resolved", "closed"}
         => /\ Len(sends') = Len(sends)
            /\ \A n \in DOMAIN messages' :
                  IsTemp(messages'[n].id) => MessageExists(messages, messages'[n].id)]_vars

C14_CreateConversation ==
    [][\A k \in 1..Len(creating) :
         CreateResponse(k) =>
           IF creating[k].phase = "created"
           THEN /\ currentConversation' = creating[k].conversation
                /\ messages' = creating[k].messages
                /\ activeSubscription'.conversationId = creating[k].conversation.id
                /\ \E ch \in channels' :
                      /\ ch.id = activeSubscription'.channel
                      /\ ch.conversationId = creating[k].conversation.id
           ELSE /\ error' # NoError
                /\ UNCHANGED <<currentConversation, messages, conversations,
                               activeSubscription, channels>>]_vars

\* C14 witness: a creation has failed while a conversation was current, listed
\* and subscribed, and all of that is still there
C14_Witness ==
    /\ error = "Failed to create conversation"
    /\ creating = <<>>
    /\ currentConversation # NoConversation
    /\ messages # <<>>
    /\ conversations # <<>>
    /\ activeSubscription.conversationId = currentConversation.id

\* C15: loadConversations. A successful response replaces the conversation
\* list by the fetched one; a failed one sets the error and leaves the list
\* exactly as it was; both end with isLoading false.
C15_LoadConversations ==
    [][\A k \in 1..Len(lists) :
         ListResponse(k) =>
           /\ isLoading' = FALSE
           /\ IF lists[k].phase = "listed"
              THEN conversations' = lists[k].conversations
              ELSE /\ error' # NoError
                   /\ conversations' = conversations]_vars

\* C15 witness: a load of the conversations has failed after an earlier one had
\* filled the list, and the list is still filled
C15_Witness ==
    /\ error = "Failed to load conversations"
    /\ conversations # <<>>
    /\ ~isLoading
    /\ lists = <<>>

\* C16: failure of sendMessage. The response of a failed POST removes the
\* placeholder of that send from the message list in that very step, keeps
\* every other entry in its order, sets the error and sets isSending false.
C16_SendFailure ==
    [][\A k \in 1..Len(sends) :
         (sends[k].phase = "posting" /\ PostResponse(k)) =>
           /\ messages' = SelectSeq(messages, LAMBDA m : m.id # sends[k].tempId)
           /\ error' # NoError
           /\ isSending' = FALSE
           /\ sends'[k].phase = "failed"]_vars

\* C16 witness: a send has failed with its placeholder among other entries;
\* the placeholder is gone, the other entries, a placeholder among them, remain
C16_Witness ==
    \E k \in 1..Len(sends) :
        /\ sends[k].phase = "failed"
        /\ error = "Failed to send message"
        /\ ~isSending
        /\ ~MessageExists(messages, sends[k].tempId)
        /\ \E m, n \in DOMAIN messages :
              ~IsTemp(messages[m].id) /\ IsTemp(messages[n].id)

\* the event an open channel delivers next is a support message the list does
\* not hold, and the widget is closed
Countable(ch) ==
    /\ ch.pending # <<>>
    /\ ~MessageExists(messages, Head(ch.pending).id)
    /\ Head(ch.pending).sender_type = "support"
    /\ ~isOpen

\* C17: unread counter. The realtime handler adds one to unreadCount exactly
\* when the message of the event is not in the list, is support-authored and
\* the widget is closed, and leaves it otherwise; openWidget sets unreadCount
\* to 0 and the error to none; closeWidget changes isOpen only. Hence the
\* counter is 0 while the widget is open, and leaves 0 only by such an event.
C17_UnreadCounter ==
    /\ [](isOpen => unreadCount = 0)
    /\ [][/\ \A ch \in channels :
              (ch.pending # <<>> /\ OnInsert(ch)) =>
                 unreadCount' = IF Countable(ch) THEN unreadCount + 1
                                                 ELSE unreadCount
          /\ OpenWidget => (unreadCount' = 0 /\ error' = NoError)
          /\ CloseWidget =>
                UNCHANGED <<unreadCount, currentConversation, messages, isLoading,
                            isSending, error, conversations, clientVars>>
          /\ unreadCount' # unreadCount =>
                \/ unreadCount' = 0 /\ isOpen'
                \/ \E ch \in channels : Countable(ch) /\ OnInsert(ch)]_vars

\* C17 witness: with the widget closed, the handler has counted a support
\* message it added to the list
C17_Witness ==
    /\ ~isOpen
    /\ unreadCount = 1
    /\ \E n \in DOMAIN messages : messages[n].sender_type = "support"

\* the confirmed entries of a list, in their order
Confirmed(list) == SelectSeq(list, LAMBDA m : m.id > 0)

C19_StaleCleanup ==
    [][\A k \in 1..Len(sends) :
         (sends[k].conversationId # currentConversation.id /\ CleanupTimer(k)) =>
           /\ messages' = SelectSeq(messages, LAMBDA m : m.id # sends[k].tempId)
           /\ UNCHANGED <<currentConversation, cache, activeSubscription, channels>>
           /\ (\E j \in 1..Len(sends) :
                  j # k /\ sends[j].phase \in {"posting", "persisted"})
                => isSending' = isSending]_vars

\* the requests of the store that await their response
InFlight == <<lists, creating, loads, updates,
              SelectSeq(sends, LAMBDA x : x.phase \in {"posting", "persisted"})>>

\* C20: failure semantics of the store. The response of a failed HTTP call of
\* loadConversations, createConversation, loadConversationMessages,
\* updateConversationStatus or sendMessage sets the error to a message and
\* settles the call: its request leaves the requests in flight and no request
\* is made in its place.
C20_FailureSemantics ==
    [][/\ \A k \in 1..Len(lists) :
            (lists[k].phase = "sent" /\ ListResponse(k)) =>
               /\ error' # NoError
               /\ InFlight' = [InFlight EXCEPT ![1] = Without(lists, k)]
       /\ \A k \in 1..Len(creating) :
            (creating[k].phase = "sent" /\ CreateResponse(k)) =>
               /\ error' # NoError
               /\ InFlight' = [InFlight EXCEPT ![2] = Without(creating, k)]
       /\ \A k \in 1..Len(loads) :
            (loads[k].phase = "sent" /\ LoadResponse(k)) =>
               /\ error' # NoError
               /\ InFlight' = [InFlight EXCEPT ![3] = Without(loads, k)]
       /\ \A k \in 1..Len(updates) :
            (updates[k].phase = "sent" /\ PatchResponse(k)) =>
               /\ error' # NoError
               /\ InFlight' = [InFlight EXCEPT ![4] = Without(updates, k)]
       /\ \A k \in 1..Len(sends) :
            (sends[k].phase = "posting" /\ PostResponse(k)) =>
               /\ error' # NoError
               /\ Len(sends') = Len(sends)
               /\ sends'[k].phase = "failed"
               /\ InFlight' = [InFlight EXCEPT ![5] =
                     SelectSeq(sends, LAMBDA x : /\ x.tempId # sends[k].tempId
                                                 /\ x.phase \in {"posting", "persisted"})]
      ]_vars

\* C20 witness: a send has failed and later an update of the status has failed;
\* the error is that of the update and no request is in flight
C20_Witness ==
    /\ error = "Failed to update conversation status"
    /\ Quiet
    /\ \E k \in 1..Len(sends) : sends[k].phase = "failed"

----------------------------------------------------------------------------
(* The claims about the input component and the widget *)

\* the request chains of the form that are in flight: its upload, its
\* createConversation, its sendMessage
ChainsInFlight ==
    (IF submit.phase = "uploading" THEN 1 ELSE 0)
    + Len(creating)
    + Cardinality({k \in 1..Len(sends) : sends[k].phase \in {"posting", "persisted"}})

AwaitsSend(k) == submit.phase = "awaiting" /\ submit.send = k

AwaitsCreation == submit.phase = "awaiting" /\ submit.send = 0

\* C22: when the sendMessage or the createConversation the form awaits fails,
\* the response step puts the submitted text back into the input field; when it
\* succeeds the field stays cleared.
C22_TextRestored ==
    /\ [][\A k \in 1..Len(sends) :
            PostResponse(k) /\ AwaitsSend(k) =>
                inputMessage' = IF sends[k].phase = "posting"
                                THEN submit.text ELSE ""]_vars
    /\ [][\A k \in 1..Len(creating) :
            CreateResponse(k) /\ AwaitsCreation =>
                inputMessage' = IF creating[k].phase = "sent"
                                THEN submit.text ELSE ""]_vars

\* C23: placeholder liveness. When every POST of sendMessage resolves and every
\* timer fires, each placeholder that is in the message list is eventually out
\* of it, and a sending flag that is set is eventually cleared.
C23_PlaceholderLiveness ==
    /\ \A n \in 1..MaxSends :
          MessageExists(messages, TempId(n)) ~> ~MessageExists(messages, TempId(n))
    /\ isSending ~> ~isSending

\* C23 witness: a send has succeeded and its timer has removed its placeholder
\* and cleared the flag
C23_Witness ==
    \E k \in 1..Len(sends) :
        /\ sends[k].phase = "cleaned"
        /\ ~MessageExists(messages, sends[k].tempId)
        /\ ~isSending

----------------------------------------------------------------------------
(* The claims about selections, loads and realtime events *)

\* C24: message-list ownership. Every entry of the message list carries the id
\* of the current conversation, whatever the order of selections, load
\* responses, realtime events and send responses.
C24_ListOwnership ==
    \A n \in 1..Len(messages) :
        messages[n].conversation_id = currentConversation.id

\* C25: subscription follows selection. Whenever the subscription slot is
\* filled there is a current conversation and the slot is subscribed to it.
C25_SubscriptionFollows ==
    activeSubscription # NoSubscription =>
        /\ currentConversation # NoConversation
        /\ activeSubscription.conversationId = currentConversation.id

\* C28: start-new flow. From "Start New Ticket" until the form submits a message
\* that creates a conversation, there is no current conversation.
C28_StartNew ==
    /\ [](startedNew => currentConversation = NoConversation)
    /\ [][startedNew => ~RestoreEffect]_vars

\* C26: no lost realtime message. A confirmed message the realtime handler has
\* appended to the list of the current conversation since that conversation
\* was selected is in the list and in the cache entry of the conversation.
C26_NoLostMessage ==
    \A id \in appended :
        srvMessages[id].conversation_id = currentConversation.id =>
            /\ MessageExists(messages, id)
            /\ MessageExists(cache[currentConversation.id], id)

\* C27: cache hygiene. Every entry of the cache of conversation c is a confirmed
\* message of c, no id is cached twice, and a handler step that adds a message
\* leaves the cache entry of its conversation equal to the message list.
C27_CacheHygiene ==
    /\ [](\A c \in ConversationIds :
            /\ \A n \in 1..Len(cache[c]) :
                  cache[c][n].conversation_id = c /\ ~IsTemp(cache[c][n].id)
            /\ \A i, j \in 1..Len(cache[c]) :
                  cache[c][i].id = cache[c][j].id => i = j)
    /\ [][\A ch \in channels :
            OnInsert(ch) /\ messages' # messages =>
                cache'[ch.conversationId] = messages']_vars

\* the JSON body of a request carries the image URL
CarriesImage(body, imageUrl) ==
    "image_url" \in DOMAIN body /\ body.image_url = imageUrl

\* C30: image delivery from the form. When the upload of a submission succeeds,
\* the request the form then makes, the POST of sendMessage or the POST of
\* createConversation, carries the URL of the uploaded image.
C30_ImageDelivered ==
    [][UploadResponse(TRUE) =>
        /\ Len(sends') > Len(sends) =>
              CarriesImage(sends'[Len(sends')].body, UploadUrl)
        /\ Len(creating') > Len(creating) =>
              CarriesImage(creating'[Len(creating')].body, UploadUrl)]_vars

----------------------------------------------------------------------------
(* The claim about redelivery *)

\* C29: webhook redelivery. When the same update is processed by two
\* invocations, at most one row is persisted for it: the table never holds two
\* rows, with or without the Telegram message id attached.
C29_AtMostOnce == Len(db) <= 1

====
